---- MODULE Spec2Model ----
(***************************************************************************)
(* unicode_range_finder (src/main.go): the query path of main              *)
(*   -range / query terms -> parseMatchers -> query -> printRanges         *)
(* and the table builder generateCode.                                     *)
(*                                                                         *)
(* Strings are sequences of bytes (Go strings), printed output is the      *)
(* sequence of lines written, each line the strings handed to fmt.Print.   *)
(* Values parsed with a 32 bit unsigned parse are kept as a pair           *)
(* [hi, lo] standing for hi * 2^31 + lo, so that the conversion to a rune  *)
(* (int32) wraps exactly as the Go conversion does.                        *)
(***************************************************************************)
EXTENDS Integers, Sequences, FiniteSets, TLC

VARIABLES
    allCodepoints,      \* the codepoint table (generated.go, built by generateCode)
    pc,                 \* position of main
    rangeStr,           \* flag -range
    args,               \* flag.Args(): the positional arguments
    leadup,             \* flag -leadup (printRanges' leadup, rewritten per line)
    highCol,            \* flag -highcol
    lowCP, highCP,      \* main's lowCP, highCP (uint64 holding a 32 bit parse)
    inclusiveMatchers,  \* main's inclusiveMatchers: the closures parseMatchers built
    exclusiveMatchers,  \* main's exclusiveMatchers
    diag,               \* diagnostics written by parseMatchers / main (usage errors)
    inclusiveMatcher,   \* query's parameter: the records it is true of
    exclusiveMatcher,   \* query's parameter: the records it is true of
    i,                  \* query's loop index (0-based, as in the source)
    inRange,            \* query's inRange
    startRange,         \* query's startRange
    ranges,             \* query's result
    remaining,          \* printRanges' ranges (the slice still to print)
    out                 \* lines written by printRanges

vars == <<allCodepoints, pc, rangeStr, args, leadup, highCol, lowCP, highCP,
          inclusiveMatchers, exclusiveMatchers, diag, inclusiveMatcher,
          exclusiveMatcher, i, inRange, startRange, ranges, remaining, out>>

(***************************************************************************)
(* Bounds of the model.                                                    *)
(***************************************************************************)
TableLen == 4       \* longest table
MaxArgs == 2        \* most positional arguments
MaxRanges == 3      \* longest Range sequence handed to printRanges directly
MaxLines == 5       \* lines after which a printRanges that never ends is cut off

(***************************************************************************)
(* Byte strings.                                                           *)
(***************************************************************************)
Max31 == 2147483647

\* strings.Index: the first position (1-based) of sep in s, 0 when absent
Index(s, sep) ==
    LET hits == {k \in 1..(Len(s) - Len(sep) + 1) : SubSeq(s, k, k + Len(sep) - 1) = sep}
    IN  IF hits = {} THEN 0 ELSE CHOOSE k \in hits : \A j \in hits : k <= j

\* strings.Split(s, sep) for a non-empty sep
RECURSIVE Split(_, _)
Split(s, sep) ==
    LET k == Index(s, sep)
    IN  IF k = 0 THEN <<s>>
        ELSE <<SubSeq(s, 1, k - 1)>> \o Split(SubSeq(s, k + Len(sep), Len(s)), sep)

\* strings.Repeat(" ", n)
Spaces(n) == IF n = 0 THEN <<>> ELSE [k \in 1..n |-> 32]

\* the strings.Builder loop of main: the arguments joined by single spaces
RECURSIVE JoinArgs(_)
JoinArgs(as) ==
    IF Len(as) = 0 THEN <<>>
    ELSE IF Len(as) = 1 THEN as[1]
    ELSE as[1] \o <<32>> \o JoinArgs(Tail(as))

(***************************************************************************)
(* utf8.DecodeRuneInString (the rune only; main drops the size).           *)
(***************************************************************************)
RuneError == 65533

IsCont(b) == b >= 128 /\ b <= 191

DecodeRuneInString(s) ==
    IF Len(s) < 1 THEN RuneError
    ELSE LET b0 == s[1]
             size == IF b0 < 128 THEN 1
                     ELSE IF b0 < 194 THEN 0
                     ELSE IF b0 < 224 THEN 2
                     ELSE IF b0 < 240 THEN 3
                     ELSE IF b0 < 245 THEN 4
                     ELSE 0
             lo1 == IF b0 = 224 THEN 160 ELSE IF b0 = 240 THEN 144 ELSE 128
             hi1 == IF b0 = 237 THEN 159 ELSE IF b0 = 244 THEN 143 ELSE 191
         IN  IF size = 1 THEN b0
             ELSE IF size = 0 \/ Len(s) < size THEN RuneError
             ELSE IF s[2] < lo1 \/ s[2] > hi1 THEN RuneError
             ELSE IF size = 2 THEN (b0 - 192) * 64 + (s[2] - 128)
             ELSE IF ~IsCont(s[3]) THEN RuneError
             ELSE IF size = 3 THEN (b0 - 224) * 4096 + (s[2] - 128) * 64 + (s[3] - 128)
             ELSE IF ~IsCont(s[4]) THEN RuneError
             ELSE (b0 - 240) * 262144 + (s[2] - 128) * 4096 + (s[3] - 128) * 64 + (s[4] - 128)

(***************************************************************************)
(* strconv.ParseUint(s, base, 32).  A value v is [hi, lo], v = hi*2^31+lo. *)
(***************************************************************************)
U32(n) == [err |-> "none", hi |-> 0, lo |-> n]

ErrSyntax == [err |-> "syntax", hi |-> 0, lo |-> 0]
ErrRange == [err |-> "range", hi |-> 0, lo |-> 0]
IsErr(v) == v.err # "none"

\* the value of a digit byte, 36 when it is no digit
DigitVal(b) ==
    IF b >= 48 /\ b <= 57 THEN b - 48
    ELSE IF b >= 97 /\ b <= 122 THEN b - 97 + 10
    ELSE IF b >= 65 /\ b <= 90 THEN b - 65 + 10
    ELSE 36

\* v * base + d, or ErrRange when it does not fit 32 bits
MulAdd(v, base, d) ==
    IF v.hi = 1 THEN ErrRange
    ELSE LET m == (Max31 - d) \div base
         IN  IF v.lo <= m THEN [err |-> "none", hi |-> 0, lo |-> v.lo * base + d]
             ELSE LET first == (m * base + d - Max31) + (base - 1)
                      e == v.lo - m - 1
                  IN  IF e > (Max31 - first) \div base THEN ErrRange
                      ELSE [err |-> "none", hi |-> 1, lo |-> first + e * base]

RECURSIVE ParseDigits(_, _, _)
ParseDigits(s, base, acc) ==
    IF Len(s) = 0 THEN acc
    ELSE LET d == DigitVal(s[1])
         IN  IF d >= base THEN ErrSyntax
             ELSE LET nxt == MulAdd(acc, base, d)
                  IN  IF IsErr(nxt) THEN nxt
                      ELSE ParseDigits(Tail(s), base, nxt)

\* ParseUint(s, 16, 32): a value, or a syntax / range error (err != nil)
ParseUint16(s) ==
    IF Len(s) = 0 THEN ErrSyntax ELSE ParseDigits(s, 16, U32(0))

\* ParseUint(s, 0, 32): the base is read off the prefix (0b, 0o, 0x, 0, none)
ParseUint0(s) ==
    IF Len(s) = 0 THEN ErrSyntax
    ELSE IF s[1] # 48 THEN ParseDigits(s, 10, U32(0))
    ELSE IF Len(s) >= 3 /\ s[2] \in {98, 66} THEN ParseDigits(SubSeq(s, 3, Len(s)), 2, U32(0))
    ELSE IF Len(s) >= 3 /\ s[2] \in {111, 79} THEN ParseDigits(SubSeq(s, 3, Len(s)), 8, U32(0))
    ELSE IF Len(s) >= 3 /\ s[2] \in {120, 88} THEN ParseDigits(SubSeq(s, 3, Len(s)), 16, U32(0))
    ELSE ParseDigits(Tail(s), 8, U32(0))

\* rune(v): the conversion of a uint64 below 2^32 to int32
Rune(v) == IF v.hi = 1 THEN (v.lo - Max31) - 1 ELSE v.lo


(***************************************************************************)
(* The codepoint table: generateCode.                                      *)
(***************************************************************************)
\* the gc attribute of the Unicode database for a scalar value (two letters)
GeneralCategory(cp) ==
    CASE cp % 4 = 0 -> <<76, 117>>      \* Lu
      [] cp % 4 = 1 -> <<76, 108>>      \* Ll
      [] cp % 4 = 2 -> <<78, 100>>      \* Nd
      [] OTHER      -> <<67, 110>>      \* Cn

\* LoadedCodepoint.All followed by fixup: the record stored for a scalar value
LoadedRecord(cp) ==
    LET gc == GeneralCategory(cp)
        major == gc[1]
        minor == IF Len(gc) >= 2 THEN gc[2] ELSE 0
    IN  [Codepoint |-> cp,
         MajorCategory |-> IF major < 65 \/ major > 90 THEN 32 ELSE major,
         MinorCategory |-> IF minor < 97 \/ minor > 122 THEN 32 ELSE minor]

\* generateCode(lowCP, highCP, _): the dense table cut to codepoints[lowCP:highCP]
GenerateCode(low, high) ==
    LET top == IF high < 1114112 THEN high ELSE 1114112
    IN  [p \in 1..(top - low) |-> LoadedRecord(low + p - 1)]

(***************************************************************************)
(* Matchers: the closures of parseMatchers and main, as the variables they *)
(* capture.                                                                *)
(***************************************************************************)
MatchMajor(major) == [kind |-> "major", a |-> major, b |-> 0]
MatchMajorMinor(major, minor) == [kind |-> "majorMinor", a |-> major, b |-> minor]
MatchCode(code) == [kind |-> "code", a |-> code, b |-> 0]
MatchBetween(low, hi) == [kind |-> "between", a |-> low, b |-> hi]
MatchOutside(low, high) == [kind |-> "outside", a |-> low, b |-> high]

\* a closure called on a record
Apply(m, cp) ==
    CASE m.kind = "major" -> cp.MajorCategory = m.a
      [] m.kind = "majorMinor" -> cp.MajorCategory = m.a /\ cp.MinorCategory = m.b
      [] m.kind = "code" -> cp.Codepoint = m.a
      [] m.kind = "between" -> cp.Codepoint >= m.a /\ cp.Codepoint <= m.b
      [] m.kind = "outside" -> cp.Codepoint < m.a \/ cp.Codepoint > m.b

\* the closures main hands to query: true when any matcher of the list is
AnyMatcher(matchers, cp) == \E k \in 1..Len(matchers) : Apply(matchers[k], cp)

(***************************************************************************)
(* parseMatchers.  The result is [matchers, status, term]: status "ok",    *)
(* "usage" (Unknown query param printed with the usage, then return) or    *)
(* "panic"; term is the term that stopped the parse.                       *)
(***************************************************************************)
KeyCat == <<99, 97, 116>>
KeyCh == <<99, 104>>
KeyCp == <<99, 112>>

\* one term of the loop body: [status, matcher]; status "ok", "skip", "usage", "panic"
ParseTerm(matcher) ==
    LET none == MatchCode(0)
        kv == Split(matcher, <<61>>)
    IN  IF Len(matcher) = 0 THEN [status |-> "skip", matcher |-> none]
        ELSE IF Len(kv) # 2 THEN [status |-> "usage", matcher |-> none]
        ELSE IF kv[1] = KeyCat THEN
            IF Len(kv[2]) = 1 THEN [status |-> "ok", matcher |-> MatchMajor(kv[2][1])]
            ELSE IF Len(kv[2]) = 2
                 THEN [status |-> "ok", matcher |-> MatchMajorMinor(kv[2][1], kv[2][2])]
            ELSE [status |-> "usage", matcher |-> none]
        ELSE IF kv[1] = KeyCh THEN
            LET lowHi == Split(kv[2], <<45>>)
            IN  IF Len(lowHi) = 1
                THEN [status |-> "ok", matcher |-> MatchCode(DecodeRuneInString(kv[2]))]
                ELSE [status |-> "ok",
                      matcher |-> MatchBetween(DecodeRuneInString(lowHi[1]),
                                               DecodeRuneInString(lowHi[2]))]
        ELSE IF kv[1] = KeyCp THEN
            LET lowHi == Split(kv[2], <<45>>)
            IN  IF Len(lowHi) = 1 THEN
                    LET code == ParseUint16(kv[2])
                    IN  IF IsErr(code) THEN [status |-> "panic", matcher |-> none]
                        ELSE [status |-> "ok", matcher |-> MatchCode(Rune(code))]
                ELSE
                    LET lowCode == ParseUint16(lowHi[1])
                        hiCode == ParseUint16(lowHi[2])
                    IN  IF IsErr(lowCode) \/ IsErr(hiCode)
                        THEN [status |-> "panic", matcher |-> none]
                        ELSE [status |-> "ok",
                              matcher |-> MatchBetween(Rune(lowCode), Rune(hiCode))]
        ELSE [status |-> "usage", matcher |-> none]

RECURSIVE ParseTerms(_, _)
ParseTerms(terms, cpMatchers) ==
    IF Len(terms) = 0 THEN [matchers |-> cpMatchers, status |-> "ok", term |-> <<>>]
    ELSE LET r == ParseTerm(terms[1])
         IN  IF r.status = "skip" THEN ParseTerms(Tail(terms), cpMatchers)
             ELSE IF r.status = "ok"
                  THEN ParseTerms(Tail(terms), Append(cpMatchers, r.matcher))
             ELSE IF r.status = "usage"
                  THEN [matchers |-> cpMatchers, status |-> "usage", term |-> terms[1]]
             ELSE [matchers |-> <<>>, status |-> "panic", term |-> terms[1]]

ParseMatchers(matchers) == ParseTerms(Split(matchers, <<32>>), <<>>)

(***************************************************************************)
(* Range.String and Ranges.String.                                         *)
(***************************************************************************)
HexDigit(d) == IF d < 10 THEN 48 + d ELSE 55 + d

\* %X of a value that is not negative
RECURSIVE Hex(_)
Hex(n) == IF n < 16 THEN <<HexDigit(n)>> ELSE Hex(n \div 16) \o <<HexDigit(n % 16)>>

RangeString(r) ==
    IF r.Begin = r.End THEN <<35, 120>> \o Hex(r.Begin)
    ELSE <<91, 35, 120>> \o Hex(r.Begin) \o <<45, 35, 120>> \o Hex(r.End) \o <<93>>

RECURSIVE RangesString(_)
RangesString(rs) ==
    IF Len(rs) = 0 THEN <<>>
    ELSE IF Len(rs) = 1 THEN RangeString(rs[1])
    ELSE RangeString(rs[1]) \o <<32, 124, 32>> \o RangesString(Tail(rs))

(***************************************************************************)
(* printLine: the strings printed before the newline; entriesUsed is their *)
(* number.  k is the loop index (0-based), col the column reached.         *)
(***************************************************************************)
\* lines 132-134 with the separator written after every range
LineTokenAlwaysSeparated(rs, k) ==
    (IF k > 0 THEN <<32>> ELSE <<>>) \o RangeString(rs[k + 1]) \o <<32, 124>>

\* lines 127-135: the string built for ranges[k]
LineToken(rs, k) ==
    (IF k > 0 THEN <<32>> ELSE <<>>) \o RangeString(rs[k + 1])
        \o (IF k < Len(rs) - 1 THEN <<32, 124>> ELSE <<>>)

RECURSIVE PrintLineFrom(_, _, _, _)
PrintLineFrom(rs, k, col, highcol) ==
    IF k >= Len(rs) THEN <<>>
    ELSE LET str == LineToken(rs, k)
         IN  IF col + Len(str) > highcol THEN <<>>
             ELSE <<str>> \o PrintLineFrom(rs, k + 1, col + Len(str), highcol)

PrintLine(rs, lowcol, highcol) == PrintLineFrom(rs, 0, lowcol, highcol)


(***************************************************************************)
(* Inputs.                                                                 *)
(***************************************************************************)
\* the UTF-8 bytes of a character, as the shell hands it to the program
UTF8(c) ==
    IF c < 128 THEN <<c>>
    ELSE IF c < 2048 THEN <<192 + (c \div 64), 128 + (c % 64)>>
    ELSE IF c < 65536
         THEN <<224 + (c \div 4096), 128 + ((c \div 64) % 64), 128 + (c % 64)>>
    ELSE <<240 + (c \div 262144), 128 + ((c \div 4096) % 64), 128 + ((c \div 64) % 64),
           128 + (c % 64)>>

\* characters given as ch=C: U+0001, '-', U+00E9, U+20AC
TermChars == {1, 45, 233, 8364}

\* the term ch=C
ChTerm(c) == <<99, 104, 61>> \o UTF8(c)

ArgSet ==
    { <<99, 97, 116, 61, 76>>,              \* cat=L
      <<99, 97, 116, 61, 78, 100>>,         \* cat=Nd
      <<99, 97, 116, 61, 76, 117, 120>>,    \* cat=Lux   (no such category form)
      <<99, 104, 61, 1, 45, 2>>,            \* ch=U+0001-U+0002
      <<99, 112, 61, 49>>,                  \* cp=1
      <<99, 112, 61, 48, 45, 49>>,          \* cp=0-1
      <<99, 112, 61, 122, 122>>,            \* cp=zz     (no hex literal)
      <<102, 111, 111, 61, 49>>,            \* foo=1     (unknown key)
      <<99, 97, 116>>,                      \* cat       (no '=')
      <<>> }                                \* an empty argument
    \cup {ChTerm(c) : c \in TermChars}

ArgLists == UNION {[1..n -> ArgSet] : n \in 0..MaxArgs}

RangeStrs ==
    { <<>>,                                                     \* no -range
      <<48, 45, 50>>,                                           \* 0-2
      <<49, 45, 49>>,                                           \* 1-1
      <<48, 45, 48, 120, 49, 48, 102, 102, 102, 102>>,          \* 0-0x10ffff
      <<48, 120, 56, 48, 48, 48, 48, 48, 48, 48, 45,
        48, 120, 49, 48, 102, 102, 102, 102>>,                  \* 0x80000000-0x10ffff
      <<49, 45, 52, 50, 57, 52, 57, 54, 55, 50, 57, 53>>,       \* 1-4294967295
      <<50>>,                                                   \* 2
      <<120, 45, 49>> }                                         \* x-1

Leadups == {<<>>, <<58, 61>>}                                   \* "" and ":="
HighCols == {-1, 0, 1, 3, 5, 8, 14, 20, 80}

\* tables generateCode builds: codepoints[low:high]
TableLows == {0, 1, 65}
Tables == {GenerateCode(low, low + n) : low \in TableLows, n \in 0..TableLen}

\* Range sequences as query returns them: ascending, a gap between neighbours
RangeVals == {0, 2, 65, 90, 1114111}
RangeSet == {[Begin |-> b, End |-> e] : b \in RangeVals, e \in RangeVals}
RangeSeqs ==
    {rs \in UNION {[1..n -> RangeSet] : n \in 0..MaxRanges} :
        /\ \A k \in 1..Len(rs) : rs[k].Begin <= rs[k].End
        /\ \A k \in 1..(Len(rs) - 1) : rs[k].End + 1 < rs[k + 1].Begin}

(***************************************************************************)
(* main.                                                                   *)
(***************************************************************************)
Records(table) == {table[p] : p \in 1..Len(table)}

NoBound ==
    /\ lowCP = U32(0)
    /\ highCP = U32(1114111)

NotParsed ==
    /\ inclusiveMatchers = <<>>
    /\ exclusiveMatchers = <<>>
    /\ diag = <<>>

NotQueried ==
    /\ i = 0
    /\ inRange = FALSE
    /\ startRange = 0
    /\ ranges = <<>>

\* main, lines 45-61: the -range flag
MainRange ==
    /\ pc = "main"
    /\ IF Len(rangeStr) > 0
       THEN LET r == Split(rangeStr, <<45>>)
            IN  IF Len(r) # 2
                THEN pc' = "panic" /\ UNCHANGED <<lowCP, highCP>>
                ELSE LET low == ParseUint0(r[1])
                         high == ParseUint0(r[2])
                     IN  IF IsErr(low) \/ IsErr(high)
                         THEN pc' = "panic" /\ UNCHANGED <<lowCP, highCP>>
                         ELSE pc' = "args" /\ lowCP' = low /\ highCP' = high
       ELSE pc' = "args" /\ UNCHANGED <<lowCP, highCP>>
    /\ UNCHANGED <<allCodepoints, rangeStr, args, leadup, highCol, inclusiveMatchers,
                   exclusiveMatchers, diag, inclusiveMatcher, exclusiveMatcher, i,
                   inRange, startRange, ranges, remaining, out>>

\* main, lines 68-83: the positional arguments and parseMatchers
MainParseMatchers ==
    /\ pc = "args"
    /\ IF Len(args) = 0
       THEN /\ diag' = <<[msg |-> "Must provide at least one query param", term |-> <<>>]>>
            /\ pc' = "done"
            /\ UNCHANGED inclusiveMatchers
       ELSE LET r == ParseMatchers(JoinArgs(args))
            IN  /\ pc' = IF r.status = "panic" THEN "panic" ELSE "matchers"
                /\ inclusiveMatchers' = r.matchers
                /\ diag' = IF r.status = "usage"
                           THEN <<[msg |-> "Unknown query param", term |-> r.term]>>
                           ELSE <<>>
    /\ UNCHANGED <<allCodepoints, rangeStr, args, leadup, highCol, lowCP, highCP,
                   exclusiveMatchers, inclusiveMatcher, exclusiveMatcher, i,
                   inRange, startRange, ranges, remaining, out>>

\* main, line 85: lowCP > 0 || highCP < 0x10ffff
Bounded(low, high) == (low.hi = 1 \/ low.lo > 0) \/ (high.hi = 0 /\ high.lo < 1114111)

\* main, lines 84-89: the exclusive matchers
ExclusiveMatchers(low, high) ==
    IF Bounded(low, high) THEN <<MatchOutside(Rune(low), Rune(high))>> ELSE <<>>

\* main, lines 84-105: the exclusive matcher and the call of query
MainQuery ==
    /\ pc = "matchers"
    /\ exclusiveMatchers' = ExclusiveMatchers(lowCP, highCP)
    /\ inclusiveMatcher' = {cp \in Records(allCodepoints) : AnyMatcher(inclusiveMatchers, cp)}
    /\ exclusiveMatcher' = {cp \in Records(allCodepoints) : AnyMatcher(exclusiveMatchers', cp)}
    /\ pc' = "query"
    /\ UNCHANGED <<allCodepoints, rangeStr, args, leadup, highCol, lowCP, highCP,
                   inclusiveMatchers, diag, i, inRange, startRange, ranges,
                   remaining, out>>

(***************************************************************************)
(* query.                                                                  *)
(***************************************************************************)
\* line 279 with the exclusive matcher dropped
MatchedInclusiveOnly(cp) == cp \in inclusiveMatcher

\* line 279: inclusiveMatcher(cp) && !exclusiveMatcher(cp)
Matched(cp) == cp \in inclusiveMatcher /\ cp \notin exclusiveMatcher

\* lines 286-289 closing the Range at i in place of i - 1
ClosedRangeAtIndex(start, k) == [Begin |-> start, End |-> k]

\* lines 286-289: the Range closed at loop index k
ClosedRange(start, k) == [Begin |-> start, End |-> k - 1]

\* lines 295-298: the Range closed at the end of the table
LastRange(start) ==
    [Begin |-> start, End |-> allCodepoints[Len(allCodepoints)].Codepoint]

\* lines 278-293: one iteration of the loop
QueryStep ==
    /\ pc = "query"
    /\ i < Len(allCodepoints)
    /\ IF Matched(allCodepoints[i + 1])
       THEN /\ startRange' = IF ~inRange THEN i ELSE startRange
            /\ inRange' = TRUE
            /\ UNCHANGED ranges
       ELSE /\ ranges' = IF inRange THEN Append(ranges, ClosedRange(startRange, i))
                         ELSE ranges
            /\ inRange' = FALSE
            /\ UNCHANGED startRange
    /\ i' = i + 1
    /\ UNCHANGED <<allCodepoints, pc, rangeStr, args, leadup, highCol, lowCP, highCP,
                   inclusiveMatchers, exclusiveMatchers, diag, inclusiveMatcher,
                   exclusiveMatcher, remaining, out>>

\* lines 294-300: after the loop; main hands the result to printRanges (line 107)
QueryReturn ==
    /\ pc = "query"
    /\ i = Len(allCodepoints)
    /\ ranges' = IF inRange THEN Append(ranges, LastRange(startRange)) ELSE ranges
    /\ remaining' = ranges'
    /\ pc' = "print"
    /\ UNCHANGED <<allCodepoints, rangeStr, args, leadup, highCol, lowCP, highCP,
                   inclusiveMatchers, exclusiveMatchers, diag, inclusiveMatcher,
                   exclusiveMatcher, i, inRange, startRange, out>>

(***************************************************************************)
(* printRanges.                                                            *)
(***************************************************************************)
\* lines 111-114: highCol <= 0
PrintUnwrapped ==
    /\ pc = "print"
    /\ highCol <= 0
    /\ out' = Append(out, [lead |-> leadup, strs |-> <<RangesString(remaining)>>])
    /\ pc' = "done"
    /\ UNCHANGED <<allCodepoints, rangeStr, args, leadup, highCol, lowCP, highCP,
                   inclusiveMatchers, exclusiveMatchers, diag, inclusiveMatcher,
                   exclusiveMatcher, i, inRange, startRange, ranges, remaining>>

\* lines 116-120: one iteration of the loop
PrintRangesLine ==
    /\ pc = "print"
    /\ highCol > 0
    /\ Len(remaining) > 0
    /\ Len(out) < MaxLines
    /\ LET strs == PrintLine(remaining, Len(leadup), highCol)
       IN  /\ out' = Append(out, [lead |-> leadup, strs |-> strs])
           /\ remaining' = SubSeq(remaining, Len(strs) + 1, Len(remaining))
    /\ leadup' = Spaces(Len(leadup))
    /\ UNCHANGED <<allCodepoints, pc, rangeStr, args, highCol, lowCP, highCP,
                   inclusiveMatchers, exclusiveMatchers, diag, inclusiveMatcher,
                   exclusiveMatcher, i, inRange, startRange, ranges>>

\* line 116: the loop ends
PrintRangesReturn ==
    /\ pc = "print"
    /\ highCol > 0
    /\ Len(remaining) = 0
    /\ pc' = "done"
    /\ UNCHANGED <<allCodepoints, rangeStr, args, leadup, highCol, lowCP, highCP,
                   inclusiveMatchers, exclusiveMatchers, diag, inclusiveMatcher,
                   exclusiveMatcher, i, inRange, startRange, ranges, remaining, out>>

(***************************************************************************)
(* Specifications.                                                         *)
(*   Spec       one invocation of main on the table generateCode(0, n)     *)
(*   SpecQuery  query on every table and every pair of predicates          *)
(*   SpecPrint  printRanges on every Range sequence, leadup and highcol    *)
(***************************************************************************)
Init ==
    /\ allCodepoints = GenerateCode(0, TableLen)
    /\ pc = "main"
    /\ rangeStr \in RangeStrs
    /\ args \in ArgLists
    /\ leadup = <<>>
    /\ highCol \in {0, 80}
    /\ NoBound /\ NotParsed /\ NotQueried
    /\ inclusiveMatcher = {}
    /\ exclusiveMatcher = {}
    /\ remaining = <<>>
    /\ out = <<>>

Next ==
    \/ MainRange
    \/ MainParseMatchers
    \/ MainQuery
    \/ QueryStep
    \/ QueryReturn
    \/ PrintUnwrapped
    \/ PrintRangesLine
    \/ PrintRangesReturn

Spec == Init /\ [][Next]_vars

InitQuery ==
    /\ allCodepoints \in Tables
    /\ pc = "query"
    /\ rangeStr = <<>>
    /\ args = <<>>
    /\ leadup = <<>>
    /\ highCol = 80
    /\ NoBound /\ NotParsed /\ NotQueried
    /\ inclusiveMatcher \in SUBSET Records(allCodepoints)
    /\ exclusiveMatcher \in SUBSET Records(allCodepoints)
    /\ remaining = <<>>
    /\ out = <<>>

NextQuery ==
    \/ QueryStep
    \/ QueryReturn

SpecQuery == InitQuery /\ [][NextQuery]_vars

InitPrint ==
    /\ allCodepoints = <<>>
    /\ pc = "print"
    /\ rangeStr = <<>>
    /\ args = <<>>
    /\ leadup \in Leadups
    /\ highCol \in HighCols
    /\ NoBound /\ NotParsed
    /\ i = 0
    /\ inRange = FALSE
    /\ startRange = 0
    /\ ranges \in RangeSeqs
    /\ inclusiveMatcher = {}
    /\ exclusiveMatcher = {}
    /\ remaining = ranges
    /\ out = <<>>

NextPrint ==
    \/ PrintUnwrapped
    \/ PrintRangesLine
    \/ PrintRangesReturn

SpecPrint == InitPrint /\ [][NextPrint]_vars


(***************************************************************************)
(* Properties.                                                             *)
(***************************************************************************)
\* the scalar values a Range sequence covers
Covered(rs) == UNION {rs[k].Begin .. rs[k].End : k \in 1..Len(rs)}

\* position p of the table holds scalar value p - 1 (0-based: position i holds i)
Dense(table) == \A p \in 1..Len(table) : table[p].Codepoint = p - 1

\* the scalar values of the records query's predicates accept
MatchedValues ==
    {r.Codepoint : r \in {t \in Records(allCodepoints) :
                              t \in inclusiveMatcher /\ t \notin exclusiveMatcher}}

\* C1: on a dense table the Ranges query returns cover exactly the scalar
\* values of the records the inclusive predicate accepts and the exclusive
\* predicate does not.
C1_QueryCoversExactlyTheMatched ==
    (pc = "print" /\ Dense(allCodepoints)) => Covered(ranges) = MatchedValues

C1_Witness ==
    /\ pc = "print"
    /\ Dense(allCodepoints)
    /\ Len(allCodepoints) >= 3
    /\ Len(ranges) >= 2
    /\ inclusiveMatcher \cap exclusiveMatcher # {}

\* C2: in every Range sequence query builds, on every table, each Range has
\* begin <= end and each Range ends at least two below the begin of the next
\* (ascending, disjoint, never adjacent).
C2_RangesAscendingAndMerged ==
    /\ \A k \in 1..Len(ranges) : ranges[k].Begin <= ranges[k].End
    /\ \A k \in 1..(Len(ranges) - 1) : ranges[k].End + 1 < ranges[k + 1].Begin

C2_Witness ==
    /\ pc = "print"
    /\ Len(ranges) >= 2
    /\ ranges[1].Begin < ranges[1].End

\* C3: with highcol > 0 every line printRanges writes holds at least one
\* Range (so the loop consumes the sequence and ends).
C3_EveryLineHoldsARange ==
    highCol > 0 => \A k \in 1..Len(out) : Len(out[k].strs) >= 1

\* some Range was written
RangesPrinted == \E k \in 1..Len(out) : \E j \in 1..Len(out[k].strs) : Len(out[k].strs[j]) > 0

\* C4: once a usage error was reported, no Range is printed.
C4_UsageErrorPrintsNoRanges == diag # <<>> => ~RangesPrinted

\* a scalar value compared with a 32 bit unsigned value
Below(cp, v) == v.hi = 1 \/ cp < v.lo
Above(cp, v) == v.hi = 0 /\ cp > v.lo

\* C5: with -range=LOW-HIGH no Range covers a codepoint below LOW or above
\* HIGH; without -range no codepoint is excluded.
C5_RangesStayInsideTheBound ==
    pc \in {"print", "done"} =>
        /\ Len(rangeStr) > 0 =>
               \A cp \in Covered(ranges) : ~Below(cp, lowCP) /\ ~Above(cp, highCP)
        /\ Len(rangeStr) = 0 => exclusiveMatcher = {}

\* C6: printing an empty Range sequence writes nothing, whatever highcol is.
C6_EmptySequencePrintsNothing == ranges = <<>> => out = <<>>

\* the length of a printed line
RECURSIVE TotalLen(_)
TotalLen(strs) == IF Len(strs) = 0 THEN 0 ELSE Len(strs[1]) + TotalLen(Tail(strs))

LineLen(line) == Len(line.lead) + TotalLen(line.strs)

\* C7: with highcol > 0 every printed line is at most highcol long, except a
\* line that holds exactly one Range.
C7_LinesFitTheBudget ==
    highCol > 0 =>
        \A k \in 1..Len(out) : LineLen(out[k]) <= highCol \/ Len(out[k].strs) = 1

StartsWithSpace(str) == Len(str) >= 1 /\ str[1] = 32
EndsWithSeparator(str) ==
    Len(str) >= 2 /\ str[Len(str) - 1] = 32 /\ str[Len(str)] = 124

\* the number of Ranges written on the lines before line k
RECURSIVE PrintedBefore(_)
PrintedBefore(k) == IF k <= 1 THEN 0 ELSE PrintedBefore(k - 1) + Len(out[k - 1].strs)

\* C8 as stated: on every line, " |" follows every Range but the last one
\* placed on that line, and a space precedes every Range but the first.
C8_NoLineEndsWithSeparator ==
    highCol > 0 =>
        \A k \in 1..Len(out) : \A j \in 1..Len(out[k].strs) :
            /\ EndsWithSeparator(out[k].strs[j]) <=> j < Len(out[k].strs)
            /\ StartsWithSpace(out[k].strs[j]) <=> j > 1

\* C8 amended: " |" follows every Range but the last one of the whole
\* sequence (a wrapped line ends with " |"), and a space precedes every
\* Range of a line but the first.
C8_SeparatorAfterAllButTheFinalRange ==
    highCol > 0 =>
        \A k \in 1..Len(out) : \A j \in 1..Len(out[k].strs) :
            /\ EndsWithSeparator(out[k].strs[j]) <=> PrintedBefore(k) + j < Len(ranges)
            /\ StartsWithSpace(out[k].strs[j]) <=> j > 1

C8_Witness ==
    /\ highCol > 0
    /\ pc = "done"
    /\ Len(out) >= 2
    /\ Len(out[1].strs) >= 2
    /\ EndsWithSeparator(out[1].strs[Len(out[1].strs)])
    /\ Len(out[Len(out)].strs) >= 1

\* records to try a matcher on
ProbeRecords == {LoadedRecord(v) : v \in TermChars \cup {0, 44, 46, 65533}}

\* C9: the term ch=C compiles to one matcher, true of exactly the records
\* whose codepoint is C.
C9_ChTermMatchesExactlyItsCharacter ==
    \A c \in TermChars :
        (pc = "matchers" /\ args = <<ChTerm(c)>>) =>
            /\ Len(inclusiveMatchers) = 1
            /\ \A r \in ProbeRecords :
                   Apply(inclusiveMatchers[1], r) <=> r.Codepoint = c

\* positions p1..p2 of the table are a run: all matched, and maximal
IsRun(p1, p2) ==
    /\ p1 <= p2
    /\ \A p \in p1..p2 : allCodepoints[p] \in inclusiveMatcher
                         /\ allCodepoints[p] \notin exclusiveMatcher
    /\ p1 = 1 \/ ~(allCodepoints[p1 - 1] \in inclusiveMatcher
                   /\ allCodepoints[p1 - 1] \notin exclusiveMatcher)
    /\ p2 = Len(allCodepoints) \/ ~(allCodepoints[p2 + 1] \in inclusiveMatcher
                                    /\ allCodepoints[p2 + 1] \notin exclusiveMatcher)

\* C10: on a table that starts above scalar value 0, every Range query
\* returns begins and ends at the scalar values of the first and last record
\* of a run.
C10_SubRangeTableRangesAreScalarValues ==
    (pc = "print" /\ Len(allCodepoints) > 0 /\ allCodepoints[1].Codepoint > 0) =>
        \A k \in 1..Len(ranges) :
            \E p1 \in 1..Len(allCodepoints) : \E p2 \in 1..Len(allCodepoints) :
                /\ IsRun(p1, p2)
                /\ ranges[k].Begin = allCodepoints[p1].Codepoint
                /\ ranges[k].End = allCodepoints[p2].Codepoint

====
